---- MODULE Spec2Model ----
(***************************************************************************)
(* The session state layer of streamlit_app.py: the installed and          *)
(* available package lists, the bounded translation history, and one run   *)
(* of main() per user interaction, stepped at its library calls.  The      *)
(* translation library is external: each of its calls either raises or     *)
(* returns, and what it returns is drawn from small sets.                  *)
(***************************************************************************)
EXTENDS Integers, Sequences, FiniteSets, TLC

\* ------------------------------------------------------------ bounds

\* Records ever added to the history in one behaviour (the ghost log's cap).
MaxRecords == 11

\* The same cap once the library holds more than one pair, where the records
\* differ in their languages.
MaxMixedRecords == 3

\* ------------------------------------------------- program constants

\* translation_history[:10], line 367.
HistoryLimit == 10

\* ------------------------------------------------------------ values

\* Language codes in Python's string order, which sorted() uses.
CodeOrder == <<"en", "es", "fr">>

\* The names the library gives its languages (lang.name, package.from_name).
LibraryName(code) ==
    CASE code = "en" -> "English"
      [] code = "es" -> "Spanish"
      [] code = "fr" -> "French"

\* The remote package index, in index order; "package" is the download handle.
PackageIndex ==
    << [from_code |-> "en", from_name |-> "English",
        to_code |-> "es", to_name |-> "Spanish", package |-> 1],
       [from_code |-> "es", from_name |-> "Spanish",
        to_code |-> "en", to_name |-> "English", package |-> 2],
       [from_code |-> "en", from_name |-> "English",
        to_code |-> "fr", to_name |-> "French", package |-> 3] >>

\* Texts are sequences of characters; what the text area can hold here.
Texts == { <<>>, <<" ", "\n">>, <<" ", "h", "i">> }

\* What argostranslate.translate.translate can return.
Translations == { <<>>, <<"h", "o", "l", "a">> }

\* str.strip() removes these from both ends.
Whitespace == {" ", "\t", "\n", "\r"}

RECURSIVE LStrip(_)
LStrip(s) ==
    IF s # <<>> /\ Head(s) \in Whitespace THEN LStrip(Tail(s)) ELSE s

RECURSIVE RStrip(_)
RStrip(s) ==
    IF s # <<>> /\ s[Len(s)] \in Whitespace
    THEN RStrip(SubSeq(s, 1, Len(s) - 1))
    ELSE s

\* input_text.strip()
Strip(s) == RStrip(LStrip(s))

\* Python's truth value of a string.
Truthy(s) == s # <<>>

Range(s) == { s[i] : i \in 1..Len(s) }

RECURSIVE Concat(_)
Concat(ss) == IF ss = <<>> THEN <<>> ELSE Head(ss) \o Concat(Tail(ss))

\* s[:n]
Take(s, n) == SubSeq(s, 1, IF Len(s) < n THEN Len(s) ELSE n)

RECURSIVE Reverse(_)
Reverse(s) == IF s = <<>> THEN <<>> ELSE Append(Reverse(Tail(s)), Head(s))

CodeRank(code) == CHOOSE i \in 1..Len(CodeOrder) : CodeOrder[i] = code

\* Python's < on (code, name) tuples; a language's name follows its code.
TupleLess(a, b) == CodeRank(a[1]) < CodeRank(b[1])

\* sorted(list)
Sorted(s) == SortSeq(s, TupleLess)

RECURSIVE SetToSeq(_)
SetToSeq(S) ==
    IF S = {} THEN <<>>
    ELSE LET x == CHOOSE y \in S : TRUE IN <<x>> \o SetToSeq(S \ {x})

\* sorted(list(set(list)))
SortedSet(s) == Sorted(SetToSeq(Range(s)))

\* Lines 257-264.  A button of the page is its name and, for a quick-install
\* button, the position of its pair in popular_pairs (0 for the others).
popular_pairs ==
    << <<"en", "es">>, <<"en", "fr">>, <<"en", "de">>,
       <<"es", "en">>, <<"fr", "en">>, <<"de", "en">> >>

NoButton == [button |-> "none", quick |-> 0]

Button(name) == [button |-> name, quick |-> 0]

QuickButton(k) == [button |-> "quick", quick |-> k]

\* ------------------------------------------------------------- state

VARIABLES
    store,                \* the library's installed packages: (from, to) pairs
    installed_packages,   \* st.session_state.installed_packages
    available_packages,   \* st.session_state.available_packages
    translation_history,  \* st.session_state.translation_history
    clock,                \* the wall clock, as time.strftime reads it
    pc,                   \* where the current run of main() is
    clicked,              \* the button whose click started the run
    st_errors,            \* the st.error messages of the run, in order
    available_pairs,      \* main's local
    from_languages,       \* main's local
    to_languages,         \* main's local; unassigned is <<>>
    selected_from_idx,    \* main's local, 1-based; 0 is unassigned
    selected_to_idx,      \* main's local, 1-based; 0 is unassigned
    input_text,           \* main's local
    translate_button,     \* main's local
    translated_text,      \* main's local
    lib_event,            \* the library call the last step made, and how it ended
    lib_translate,        \* the arguments of the run's calls of the library's translate
    install_outcome,      \* the run's install: its pair and how it ended
    installs_ok,          \* the pairs whose install returned True, so far
    recorded              \* every record added to the history, oldest first

session == <<installed_packages, available_packages, translation_history>>

locals == <<available_pairs, from_languages, to_languages, selected_from_idx,
            selected_to_idx, input_text, translate_button, translated_text>>

ghosts == <<lib_event, lib_translate, install_outcome, installs_ok, recorded>>

vars == <<store, session, clock, pc, clicked, st_errors, locals, ghosts>>

NoInstall == [pair |-> <<>>, ok |-> FALSE]

NoCall == [op |-> "none", raised |-> FALSE]

Call(op, raised) == [op |-> op, raised |-> raised]

\* A run starts with its locals unassigned and an empty page.
FreshRun ==
    /\ st_errors' = <<>>
    /\ available_pairs' = <<>>
    /\ from_languages' = <<>>
    /\ to_languages' = <<>>
    /\ selected_from_idx' = 0
    /\ selected_to_idx' = 0
    /\ input_text' = <<>>
    /\ translate_button' = FALSE
    /\ translated_text' = <<>>
    /\ lib_translate' = <<>>
    /\ install_outcome' = NoInstall

\* The first run of the script: session state as lines 58-63 set it, no click.
Init ==
    /\ store \in {{}, {<<"en", "es">>}}
    /\ installed_packages = <<>>
    /\ available_packages = <<>>
    /\ translation_history = <<>>
    /\ clock = 1
    /\ pc = "refresh_button"
    /\ clicked = NoButton
    /\ st_errors = <<>>
    /\ available_pairs = <<>>
    /\ from_languages = <<>>
    /\ to_languages = <<>>
    /\ selected_from_idx = 0
    /\ selected_to_idx = 0
    /\ input_text = <<>>
    /\ translate_button = FALSE
    /\ translated_text = <<>>
    /\ lib_event = NoCall
    /\ lib_translate = <<>>
    /\ install_outcome = NoInstall
    /\ installs_ok = {}
    /\ recorded = <<>>

\* ------------------------------------------------------- the library

\* argostranslate.translate.get_installed_languages(): every language of an
\* installed package, each with the translations that start at it.
get_installed_languages(s) ==
    LET codes == { p[1] : p \in s } \cup { p[2] : p \in s }
        langs == SelectSeq(CodeOrder, LAMBDA c : c \in codes)
        targets(c) == SelectSeq(CodeOrder, LAMBDA t : <<c, t>> \in s)
    IN  [ i \in 1..Len(langs) |->
            [ code |-> langs[i],
              name |-> LibraryName(langs[i]),
              translations_from |->
                [ j \in 1..Len(targets(langs[i])) |->
                    [ to_lang |-> [ code |-> targets(langs[i])[j],
                                    name |-> LibraryName(targets(langs[i])[j]) ] ] ] ] ]

\* How a refresh's library calls can end: all return, the enumeration of the
\* languages raises, or reading the at-th language's translations raises.
RefreshOutcomes(s) ==
    { [raises |-> "no", at |-> 0], [raises |-> "languages", at |-> 0] }
    \cup { [raises |-> "targets", at |-> k] :
             k \in 1..Len(get_installed_languages(s)) }

\* package.download() then install_from_path(): both return, or one raises.
InstallOutcomes == {"ok", "download", "install_from_path"}

\* update_package_index() and get_available_packages(): return, or one raises.
IndexOutcomes == {"ok", "raises"}

\* translate(text, from_code, to_code): raises, or returns a string.
TranslateOutcomes ==
    { [raises |-> TRUE, text |-> <<>>] }
    \cup { [raises |-> FALSE, text |-> t] : t \in Translations }

\* ------------------------------------------------- the app's functions

RefreshError == "Error refreshing installed packages"
IndexError == "Error updating package index"
InstallError == "Error installing package"
TranslationError == "Translation error"
EmptyInputError == "Please enter some text to translate."
NoTargetsError == "No target languages available for the selected source language."

\* Lines 137-144: the package_info entries of one language.
PackageInfos(lang) ==
    [ j \in 1..Len(lang.translations_from) |->
        [ from_code |-> lang.code,
          from_name |-> lang.name,
          to_code |-> lang.translations_from[j].to_lang.code,
          to_name |-> lang.translations_from[j].to_lang.name ] ]

\* RefreshLoop with the loop of line 135 ending one language early.
RefreshLoopStopsEarly(installed_languages, n) ==
    Concat([ i \in 1..(n - 1) |-> PackageInfos(installed_languages[i]) ])

\* Lines 133-144 over the first n languages: the list starts empty.
RefreshLoop(installed_languages, n) ==
    Concat([ i \in 1..n |-> PackageInfos(installed_languages[i]) ])

\* refresh_installed_packages without line 133: the list is not reset.
refresh_installed_packages_keeps_list(out) ==
    LET installed_languages == get_installed_languages(store) IN
    /\ lib_event' = Call("refresh_installed", out.raises # "no")
    /\ IF out.raises = "languages"
       THEN /\ installed_packages' = installed_packages
            /\ st_errors' = Append(st_errors, RefreshError)
       ELSE IF out.raises = "targets"
       THEN /\ installed_packages' =
                  installed_packages \o RefreshLoop(installed_languages, out.at - 1)
            /\ st_errors' = Append(st_errors, RefreshError)
       ELSE /\ installed_packages' =
                  installed_packages
                    \o RefreshLoop(installed_languages, Len(installed_languages))
            /\ st_errors' = st_errors

\* refresh_installed_packages(), lines 129-146.
refresh_installed_packages(out) ==
    LET installed_languages == get_installed_languages(store) IN
    /\ lib_event' = Call("refresh_installed", out.raises # "no")
    /\ IF out.raises = "languages"
       THEN /\ installed_packages' = installed_packages
            /\ st_errors' = Append(st_errors, RefreshError)
       ELSE IF out.raises = "targets"
       THEN /\ installed_packages' = RefreshLoop(installed_languages, out.at - 1)
            /\ st_errors' = Append(st_errors, RefreshError)
       ELSE /\ installed_packages' =
                  RefreshLoop(installed_languages, Len(installed_languages))
            /\ st_errors' = st_errors

\* refresh_available_packages(), lines 148-166.
refresh_available_packages(out) ==
    /\ lib_event' = Call("refresh_available", out # "ok")
    /\ IF out = "ok"
       THEN /\ available_packages' = PackageIndex
            /\ st_errors' = st_errors
       ELSE /\ available_packages' = available_packages
            /\ st_errors' = Append(st_errors, IndexError)

\* install_package adding the package to the session's list before the
\* library has installed it.
install_package_lists_first(package_info, out) ==
    LET pair == <<package_info.from_code, package_info.to_code>> IN
    /\ lib_event' = Call("install", out # "ok")
    /\ install_outcome' = [pair |-> pair, ok |-> out = "ok"]
    /\ installs_ok' = IF out = "ok" THEN installs_ok \cup {pair} ELSE installs_ok
    /\ installed_packages' =
         Append(installed_packages,
                [ from_code |-> package_info.from_code,
                  from_name |-> package_info.from_name,
                  to_code |-> package_info.to_code,
                  to_name |-> package_info.to_name ])
    /\ IF out = "ok"
       THEN /\ store' = store \cup {pair}
            /\ st_errors' = st_errors
       ELSE /\ store' = store
            /\ st_errors' = Append(st_errors, InstallError)

\* install_package(package_info), lines 168-177; TRUE in install_outcome'.ok
\* is its return value.
install_package(package_info, out) ==
    LET pair == <<package_info.from_code, package_info.to_code>> IN
    /\ lib_event' = Call("install", out # "ok")
    /\ install_outcome' = [pair |-> pair, ok |-> out = "ok"]
    /\ installs_ok' = IF out = "ok" THEN installs_ok \cup {pair} ELSE installs_ok
    /\ installed_packages' = installed_packages
    /\ IF out = "ok"
       THEN /\ store' = store \cup {pair}
            /\ st_errors' = st_errors
       ELSE /\ store' = store
            /\ st_errors' = Append(st_errors, InstallError)

\* translate_text returning the error's message instead of "".
translate_text_returns_message(text, from_code, to_code, out) ==
    /\ lib_event' = Call("translate", out.raises)
    /\ lib_translate' =
         Append(lib_translate,
                [text |-> text, from_code |-> from_code, to_code |-> to_code])
    /\ IF out.raises
       THEN /\ translated_text' = <<"e", "r", "r">>
            /\ st_errors' = Append(st_errors, TranslationError)
       ELSE /\ translated_text' = out.text
            /\ st_errors' = st_errors

\* translate_text(text, from_code, to_code), lines 179-186.
translate_text(text, from_code, to_code, out) ==
    /\ lib_event' = Call("translate", out.raises)
    /\ lib_translate' =
         Append(lib_translate,
                [text |-> text, from_code |-> from_code, to_code |-> to_code])
    /\ IF out.raises
       THEN /\ translated_text' = <<>>
            /\ st_errors' = Append(st_errors, TranslationError)
       ELSE /\ translated_text' = out.text
            /\ st_errors' = st_errors

\* Lines 191-192: the tuples of the installed list.
PairTuples(packages) ==
    [ i \in 1..Len(packages) |->
        << packages[i].from_code, packages[i].from_name,
           packages[i].to_code, packages[i].to_name >> ]

\* AddToHistory with append() for insert(0, ...).
AddToHistoryAtEnd(history, record) == Take(Append(history, record), HistoryLimit)

\* Lines 364-367: insert at the front, keep the first ten.
AddToHistory(history, record) == Take(<<record>> \o history, HistoryLimit)

\* The first available package with the pair's codes, 0 when none (269-270).
FirstMatch(packages, pair) ==
    IF \E i \in 1..Len(packages) :
         packages[i].from_code = pair[1] /\ packages[i].to_code = pair[2]
    THEN CHOOSE i \in 1..Len(packages) :
           /\ packages[i].from_code = pair[1] /\ packages[i].to_code = pair[2]
           /\ \A j \in 1..(i - 1) :
                ~(packages[j].from_code = pair[1] /\ packages[j].to_code = pair[2])
    ELSE 0

\* ------------------------------------------------------ a run of main

\* The model stops translating at this many records.
RecordsCap == IF Cardinality(store) > 1 THEN MaxMixedRecords ELSE MaxRecords

\* The buttons the last run put on the page.  The install button is there
\* when the available list is not empty (line 233), Translate and Clear when
\* the run came to line 337.
RenderedButtons ==
    { NoButton, Button("refresh_installed"), Button("update_index"),
      Button("load_available") }
    \cup { QuickButton(k) : k \in 1..Len(popular_pairs) }
    \cup (IF available_packages # <<>> THEN {Button("install_selected")} ELSE {})
    \cup (IF selected_to_idx # 0 THEN {Button("clear")} ELSE {})
    \cup (IF selected_to_idx # 0 /\ Len(recorded) < RecordsCap
          THEN {Button("translate")} ELSE {})

\* A widget interaction starts the script again; a click sets one button.
UserEvent ==
    /\ pc = "done"
    /\ \E b \in RenderedButtons : clicked' = b
    /\ pc' = "refresh_button"
    /\ lib_event' = NoCall
    /\ FreshRun
    /\ UNCHANGED <<store, session, clock, installs_ok, recorded>>

\* st.rerun(): the script starts again with no button set.
Rerun ==
    /\ pc = "rerun"
    /\ clicked' = NoButton
    /\ pc' = "refresh_button"
    /\ lib_event' = NoCall
    /\ FreshRun
    /\ UNCHANGED <<store, session, clock, installs_ok, recorded>>

\* Lines 207-209.
RefreshButton ==
    /\ pc = "refresh_button"
    /\ IF clicked = Button("refresh_installed")
       THEN \E out \in RefreshOutcomes(store) : refresh_installed_packages(out)
       ELSE /\ lib_event' = NoCall
            /\ UNCHANGED <<installed_packages, st_errors>>
    /\ pc' = "index_button"
    /\ UNCHANGED <<store, available_packages, translation_history, clock,
                   clicked, locals, lib_translate, install_outcome, installs_ok,
                   recorded>>

\* Lines 212-214.
IndexButton ==
    /\ pc = "index_button"
    /\ IF clicked = Button("update_index")
       THEN \E out \in IndexOutcomes : refresh_available_packages(out)
       ELSE /\ lib_event' = NoCall
            /\ UNCHANGED <<available_packages, st_errors>>
    /\ pc' = "show_installed"
    /\ UNCHANGED <<store, installed_packages, translation_history, clock,
                   clicked, locals, lib_translate, install_outcome, installs_ok,
                   recorded>>

\* Lines 217-219: an empty installed list is refreshed before it is shown.
ShowInstalled ==
    /\ pc = "show_installed"
    /\ IF installed_packages = <<>>
       THEN \E out \in RefreshOutcomes(store) : refresh_installed_packages(out)
       ELSE /\ lib_event' = NoCall
            /\ UNCHANGED <<installed_packages, st_errors>>
    /\ pc' = "load_button"
    /\ UNCHANGED <<store, available_packages, translation_history, clock,
                   clicked, locals, lib_translate, install_outcome, installs_ok,
                   recorded>>

\* Lines 230-231.
LoadButton ==
    /\ pc = "load_button"
    /\ IF clicked = Button("load_available")
       THEN \E out \in IndexOutcomes : refresh_available_packages(out)
       ELSE /\ lib_event' = NoCall
            /\ UNCHANGED <<available_packages, st_errors>>
    /\ pc' = "install_button"
    /\ UNCHANGED <<store, installed_packages, translation_history, clock,
                   clicked, locals, lib_translate, install_outcome, installs_ok,
                   recorded>>

\* Lines 233-250: the selected package is installed.
InstallButton ==
    /\ pc = "install_button"
    /\ IF available_packages # <<>> /\ clicked = Button("install_selected")
       THEN \E selected_package \in 1..Len(available_packages) :
            \E out \in InstallOutcomes :
              /\ install_package(available_packages[selected_package], out)
              /\ pc' = IF out = "ok" THEN "refresh_after_install"
                       ELSE "quick_install"
       ELSE /\ lib_event' = NoCall
            /\ pc' = "quick_install"
            /\ UNCHANGED <<store, installed_packages, st_errors, install_outcome,
                           installs_ok>>
    /\ UNCHANGED <<available_packages, translation_history, clock, clicked,
                   locals, lib_translate, recorded>>

\* Lines 266-272: the first available package of the clicked pair is installed.
QuickInstall ==
    /\ pc = "quick_install"
    /\ IF /\ clicked.button = "quick"
          /\ FirstMatch(available_packages, popular_pairs[clicked.quick]) # 0
       THEN \E out \in InstallOutcomes :
              /\ install_package(
                   available_packages[
                     FirstMatch(available_packages, popular_pairs[clicked.quick])],
                   out)
              /\ pc' = IF out = "ok" THEN "refresh_after_install"
                       ELSE "language_pairs"
       ELSE /\ lib_event' = NoCall
            /\ pc' = "language_pairs"
            /\ UNCHANGED <<store, installed_packages, st_errors, install_outcome,
                           installs_ok>>
    /\ UNCHANGED <<available_packages, translation_history, clock, clicked,
                   locals, lib_translate, recorded>>

\* Lines 251-253 and 272-274: after an install that returned True.
RefreshAfterInstall ==
    /\ pc = "refresh_after_install"
    /\ \E out \in RefreshOutcomes(store) : refresh_installed_packages(out)
    /\ pc' = "rerun"
    /\ UNCHANGED <<store, available_packages, translation_history, clock,
                   clicked, locals, lib_translate, install_outcome, installs_ok,
                   recorded>>

\* Lines 278-284: get_available_language_pairs(), lines 188-192.
GetAvailableLanguagePairs ==
    /\ pc = "language_pairs"
    /\ \E out \in RefreshOutcomes(store) : refresh_installed_packages(out)
    /\ available_pairs' = PairTuples(installed_packages')
    /\ pc' = IF available_pairs' = <<>> THEN "done" ELSE "select_languages"
    /\ UNCHANGED <<store, available_packages, translation_history, clock,
                   clicked, from_languages, to_languages, selected_from_idx,
                   selected_to_idx, input_text, translate_button,
                   translated_text, lib_translate, install_outcome,
                   installs_ok, recorded>>

\* Line 293.
FromLanguages(pairs) ==
    SortedSet([ i \in 1..Len(pairs) |-> <<pairs[i][1], pairs[i][2]>> ])

\* ToLanguages without the filter on the source.
ToLanguagesUnfiltered(pairs, selected_from_code) ==
    Sorted([ i \in 1..Len(pairs) |-> <<pairs[i][3], pairs[i][4]>> ])

\* Line 307: the targets of the pairs that start at the selected source.
ToLanguages(pairs, selected_from_code) ==
    LET matching == SelectSeq(pairs, LAMBDA pair : pair[1] = selected_from_code)
    IN  Sorted([ i \in 1..Len(matching) |-> <<matching[i][3], matching[i][4]>> ])

\* Lines 291-320: the source and target selectors.
SelectLanguages ==
    /\ pc = "select_languages"
    /\ from_languages' = FromLanguages(available_pairs)
    /\ \E idx \in 1..Len(from_languages') : selected_from_idx' = idx
    /\ to_languages' =
         ToLanguages(available_pairs, from_languages'[selected_from_idx'][1])
    /\ IF to_languages' # <<>>
       THEN /\ \E idx \in 1..Len(to_languages') : selected_to_idx' = idx
            /\ st_errors' = st_errors
            /\ pc' = "translation_controls"
       ELSE /\ selected_to_idx' = 0
            /\ st_errors' = Append(st_errors, NoTargetsError)
            /\ pc' = "done"
    /\ lib_event' = NoCall
    /\ UNCHANGED <<store, session, clock, clicked, available_pairs, input_text,
                   translate_button, translated_text, lib_translate,
                   install_outcome, installs_ok, recorded>>

\* HasText without the strip().
HasTextUnstripped(text) == Truthy(text)

\* input_text.strip() as a condition, lines 347 and 372.
HasText(text) == Truthy(Strip(text))

\* Lines 326-347 and 372-373: the text area, the two buttons, the blank input.
\* The text is whatever the user left in the area; Clear only starts the
\* script again.
TranslationControls ==
    /\ pc = "translation_controls"
    /\ \E text \in Texts : input_text' = text
    /\ translate_button' = (clicked = Button("translate"))
    /\ IF clicked = Button("clear")
       THEN /\ pc' = "rerun"
            /\ st_errors' = st_errors
       ELSE IF translate_button' /\ HasText(input_text')
       THEN /\ pc' = "perform_translation"
            /\ st_errors' = st_errors
       ELSE IF translate_button' /\ ~HasText(input_text')
       THEN /\ pc' = "done"
            /\ st_errors' = Append(st_errors, EmptyInputError)
       ELSE /\ pc' = "done"
            /\ st_errors' = st_errors
    /\ lib_event' = NoCall
    /\ UNCHANGED <<store, session, clock, clicked, available_pairs,
                   from_languages, to_languages, selected_from_idx,
                   selected_to_idx, translated_text, lib_translate,
                   install_outcome, installs_ok, recorded>>

\* Lines 357-363.
TranslationRecord ==
    [ timestamp |-> clock,
      from_lang |-> from_languages[selected_from_idx][2],
      to_lang |-> to_languages[selected_to_idx][2],
      original |-> input_text,
      translated |-> translated_text' ]

\* Lines 348-367: the translation and, when its text is true, its record.
PerformTranslation ==
    /\ pc = "perform_translation"
    /\ \E out \in TranslateOutcomes :
         translate_text(input_text, from_languages[selected_from_idx][1],
                        to_languages[selected_to_idx][1], out)
    /\ IF Truthy(translated_text')
       THEN /\ translation_history' =
                 AddToHistory(translation_history, TranslationRecord)
            /\ recorded' = Append(recorded, TranslationRecord)
            /\ clock' = clock + 1
       ELSE UNCHANGED <<translation_history, recorded, clock>>
    /\ pc' = "done"
    /\ UNCHANGED <<store, installed_packages, available_packages, clicked,
                   available_pairs, from_languages, to_languages,
                   selected_from_idx, selected_to_idx, input_text,
                   translate_button, install_outcome, installs_ok>>

Next ==
    \/ UserEvent
    \/ Rerun
    \/ RefreshButton
    \/ IndexButton
    \/ ShowInstalled
    \/ LoadButton
    \/ InstallButton
    \/ QuickInstall
    \/ RefreshAfterInstall
    \/ GetAvailableLanguagePairs
    \/ SelectLanguages
    \/ TranslationControls
    \/ PerformTranslation

Spec == Init /\ [][Next]_vars

\* ------------------------------------------------------------ claims

\* The (from_code, to_code) pairs of a package list.
InstalledPairs(packages) ==
    { <<packages[i].from_code, packages[i].to_code>> : i \in 1..Len(packages) }

\* A text of whitespace only, the empty text included.
IsBlank(text) == \A i \in 1..Len(text) : text[i] \in Whitespace

\* The edges of what get_installed_languages reports, as pair tuples.
ReportedEdges(languages) ==
    UNION { { << languages[i].code, languages[i].name,
                 languages[i].translations_from[j].to_lang.code,
                 languages[i].translations_from[j].to_lang.name >> :
               j \in 1..Len(languages[i].translations_from) } :
            i \in 1..Len(languages) }

\* C1: the history never holds more than ten records, it is always the ten
\* most recently added records with the latest first, and once more than ten
\* records were added it holds exactly ten.
C1_HistoryKeepsLastTen ==
    /\ Len(translation_history) <= 10
    /\ translation_history = Take(Reverse(recorded), 10)
    /\ (Len(recorded) > 10 => Len(translation_history) = 10)

C1_Witness ==
    /\ Len(recorded) > 10
    /\ translation_history[1] = recorded[Len(recorded)]
    /\ translation_history[10] # recorded[1]

\* C2: a run whose Translate button is set and whose text is blank ends with
\* the empty-input error as its last message and without a call of the
\* library's translate; the library's translate is called, and the history
\* changes, only in a run whose text is not blank.
C2_BlankInputRejected ==
    /\ [](translate_button /\ IsBlank(input_text) =>
            /\ pc = "done"
            /\ st_errors # <<>>
            /\ st_errors[Len(st_errors)] = EmptyInputError
            /\ lib_translate = <<>>)
    /\ [][(Len(lib_translate') > Len(lib_translate)
             \/ translation_history' # translation_history)
          => (translate_button /\ ~IsBlank(input_text)
              /\ input_text' = input_text)]_vars

C2_Witness ==
    /\ translate_button
    /\ input_text # <<>>
    /\ IsBlank(input_text)
    /\ translation_history # <<>>
    /\ pc = "done"

\* C3 as claimed: once an install returned True, every refresh of the
\* installed list leaves the pair in the session's installed list.
C3_EveryRefreshHasInstalled ==
    [][lib_event'.op = "refresh_installed"
       => installs_ok \subseteq InstalledPairs(installed_packages')]_vars

\* C3 as amended: once an install returned True, every refresh of the
\* installed list during which the library raises nothing leaves the pair in
\* the session's installed list.
C3_CleanRefreshHasInstalled ==
    [][lib_event'.op = "refresh_installed" /\ ~lib_event'.raised
       => installs_ok \subseteq InstalledPairs(installed_packages')]_vars

C3_Witness ==
    /\ lib_event = Call("refresh_installed", FALSE)
    /\ pc = "rerun"
    /\ install_outcome.ok
    /\ Cardinality(installs_ok) > 1
    /\ installs_ok \subseteq InstalledPairs(installed_packages)

\* C4: when the library's calls of a refresh all return, the pairs that
\* get_available_language_pairs returns are exactly the edges the library
\* reports, each once; the session's list after any such refresh is the same.
C4_PairsAreReportedEdges ==
    lib_event = Call("refresh_installed", FALSE) =>
        /\ Range(PairTuples(installed_packages))
             = ReportedEdges(get_installed_languages(store))
        /\ Cardinality(Range(PairTuples(installed_packages)))
             = Len(installed_packages)
        /\ (pc \in {"select_languages", "done"} =>
              /\ Range(available_pairs)
                   = ReportedEdges(get_installed_languages(store))
              /\ Cardinality(Range(available_pairs)) = Len(available_pairs))

C4_Witness ==
    /\ lib_event = Call("refresh_installed", FALSE)
    /\ pc = "select_languages"
    /\ Len(available_pairs) = 3
    /\ installed_packages # <<>>
    /\ clicked = Button("refresh_installed")

\* C5 rests on a source with no target at line 310.  No run comes there: the
\* targets are filtered from the pairs the source was taken from.
SelectedSourceHasTargets ==
    selected_from_idx # 0 => to_languages # <<>> /\ selected_to_idx # 0

\* C6 as claimed: a refresh during which the library raises leaves the
\* session's installed list as it was and shows the refresh error.
C6_RefreshFailsSoftly ==
    [][lib_event'.op = "refresh_installed" /\ lib_event'.raised
       => /\ installed_packages' = installed_packages
          /\ st_errors' = Append(st_errors, RefreshError)]_vars

\* C7: an install that fails leaves the session's installed list as it was,
\* and for the rest of the run, the later refresh included, its pair is in
\* the list only if the library held it before.
C7_FailedInstallChangesNothing ==
    /\ [][lib_event'.op = "install" /\ lib_event'.raised
          => /\ installed_packages' = installed_packages
             /\ pc' \in {"quick_install", "language_pairs"}]_vars
    /\ []((install_outcome.pair # <<>> /\ ~install_outcome.ok
           /\ install_outcome.pair \notin store)
          => install_outcome.pair \notin InstalledPairs(installed_packages))

C7_Witness ==
    /\ install_outcome.pair # <<>>
    /\ ~install_outcome.ok
    /\ install_outcome.pair \notin store
    /\ lib_event = Call("refresh_installed", FALSE)
    /\ installed_packages # <<>>
    /\ pc = "select_languages"

\* C8: a run whose call of the library's translate raises leaves the history
\* as it was and ends there.
C8_FailedTranslationNotRecorded ==
    [][lib_event'.op = "translate" /\ lib_event'.raised
       => /\ translation_history' = translation_history
          /\ recorded' = recorded
          /\ pc' = "done"]_vars

C8_Witness ==
    /\ lib_event = Call("translate", TRUE)
    /\ translation_history # <<>>
    /\ st_errors = <<TranslationError>>

\* C9 as claimed: when the library's translate returns, whatever the string,
\* one new record with the run's text and the returned text is put at the
\* front of the history.
C9_EverySuccessRecorded ==
    [][lib_event'.op = "translate" /\ ~lib_event'.raised
       => /\ Len(recorded') = Len(recorded) + 1
          /\ translation_history' # <<>>
          /\ translation_history'[1].original = input_text
          /\ translation_history'[1].translated = translated_text'
          /\ Tail(translation_history')
               = Take(translation_history, 9)]_vars

\* C10: once the target is selected, the selectable targets are exactly the
\* targets of the session's installed pairs that start at the selected
\* source, and every pair handed to the library's translate is a pair of
\* that list.
C10_TargetsFollowSource ==
    selected_to_idx # 0 =>
        /\ Range(to_languages) =
             { <<installed_packages[i].to_code, installed_packages[i].to_name>> :
                 i \in { k \in 1..Len(installed_packages) :
                           installed_packages[k].from_code
                             = from_languages[selected_from_idx][1] } }
        /\ \A call \in Range(lib_translate) :
             <<call.from_code, call.to_code>> \in InstalledPairs(installed_packages)

C10_Witness ==
    /\ selected_to_idx # 0
    /\ Len(to_languages) > 1
    /\ Len(from_languages) > 1
    /\ lib_translate # <<>>
    /\ lib_translate[1].to_code = "fr"

====
